---- MODULE Spec2Model ----
(***************************************************************************)
(* Model of the note-encryption core of notes-app:                         *)
(*   - the content cipher used by the migrate_note_encryption command      *)
(*     (derive_key, decrypt_old_format, encrypt_new_format),               *)
(*   - the personal-note views of notes/views.py (note_create, note_edit,  *)
(*     note_delete, note_unlock, note_view, note_history, note_move) over  *)
(*     the Note / NoteVersion tables and the per-user session store.       *)
(*                                                                         *)
(* Text values (a title, a content, a POST field) are records              *)
(*   [kind, key, iv, data]                                                 *)
(* kind = "plain": the string data itself; kind = "token": the printable   *)
(* Fernet token that encrypts data under key with the random IV/timestamp  *)
(* iv.  Fernet is modelled symbolically: a token opens under exactly the   *)
(* key it was made with and under no other.                                *)
(***************************************************************************)
EXTENDS Integers, Sequences, FiniteSets, TLC

VARIABLES
    notes,      \* Note table: pk -> row, for the pks that exist
    versions,   \* NoteVersion rows of each note, oldest first
    folders,    \* Folder table: id -> row
    session,    \* request.session of each user: pk -> slot "note_<pk>"
    nextPk,     \* next auto-increment primary key of Note
    last,       \* the last request handled and its response
    cin,        \* inputs of the cipher functions under test
    mnote,      \* the Note object handed to the migration command's helpers
    decrypted,  \* the value decrypt_old_format returned
    cpc,        \* position in the encrypt / decrypt sequence
    mig,        \* the last run of the migration command and what it reported
    tags,       \* Tag table: rows [user, name, color]
    sharedNotes,    \* SharedNote table: id -> row
    sharedFolders,  \* SharedFolder table: id -> row
    elements,   \* CanvasElement table: id -> row
    nextId      \* next auto-increment key of Folder, SharedNote, SharedFolder, CanvasElement

vars == <<notes, versions, folders, session, nextPk, last, cin, mnote, decrypted, cpc, mig, tags, sharedNotes, sharedFolders, elements, nextId>>
webVars == <<notes, versions, folders, session, nextPk, last, tags, sharedNotes, sharedFolders, elements, nextId>>
otherTables == <<tags, sharedNotes, sharedFolders, elements, nextId>>
cipherVars == <<cin, mnote, decrypted, cpc>>
commandVars == <<cin, mnote, decrypted, cpc, mig>>

(***************************************************************************)
(* Bounds                                                                  *)
(***************************************************************************)
MaxUserId == 10      \* user ids 1..MaxUserId are fed to the cipher
MaxIV == 2           \* distinct random IV/timestamp draws of Fernet
MaxNotes == 1        \* Note rows ever created
MaxVersions == 2     \* NoteVersion rows per note

UserIds == 1..MaxUserId
WebUsers == {1, 2}
IVs == 1..MaxIV
Passwords == {"pw1", "pw2"}
Plaintexts == {"", "a", "b"}

(***************************************************************************)
(* Text values                                                             *)
(***************************************************************************)
NoKey == [pw |-> "", salt |-> <<>>]

Plain(s) == [kind |-> "plain", key |-> NoKey, iv |-> 0, data |-> s]

\* A faulty variant: the empty string counts as a value.
TruthyAlways(text) == TRUE

\* Python truthiness of a str: the empty string is falsy, a token never is.
Truthy(text) == ~(text.kind = "plain" /\ text.data = "")

\* str.encode() / bytes.decode(): UTF-8 bytes of a text and back.
Encode(text) == [utf8 |-> text]
Decode(bytes) == bytes.utf8

(***************************************************************************)
(* Content cipher (management/commands/migrate_note_encryption.py)         *)
(***************************************************************************)
SaltLen == 16

\* str(n): the decimal digits of n, most significant first.
RECURSIVE Digits(_)
Digits(n) == IF n < 10 THEN <<n>> ELSE Append(Digits(n \div 10), n % 10)

\* bytes.ljust(width, fill)
ljust(s, width, fill) ==
    IF Len(s) >= width THEN s
    ELSE s \o [i \in 1..(width - Len(s)) |-> fill]

\* str(note.user.id).encode().ljust(16, b"0")[:16]
SaltFor(uid) == SubSeq(ljust(Digits(uid), SaltLen, 0), 1, SaltLen)

\* A faulty variant: the key ignores the password.
derive_key_nopw(password, salt) == [pw |-> "", salt |-> salt]

\* PBKDF2-HMAC-SHA256 followed by urlsafe base64: a deterministic key, one
\* per (password, salt).
derive_key(password, salt) == [pw |-> password, salt |-> salt]

\* Fernet(key).encrypt(data): a fresh token for every IV/timestamp draw.
fernet_encrypt(key, bytes, iv) ==
    [kind |-> "token", key |-> key, iv |-> iv, data |-> Decode(bytes).data]

\* Fernet(key).decrypt(token): the data, or InvalidToken (ok = FALSE) when
\* the input is no token or its HMAC does not verify under key.
fernet_decrypt(key, bytes) ==
    LET tok == Decode(bytes) IN
    IF tok.kind = "token" /\ tok.key = key
    THEN [ok |-> TRUE, bytes |-> Encode(Plain(tok.data))]
    ELSE [ok |-> FALSE, bytes |-> Encode(Plain(""))]

None == [none |-> TRUE, title |-> "", content |-> ""]

\* A faulty variant: a failed decryption hands back the stored text.
decrypt_old_format_leaky(note, password) ==
    LET key == derive_key(password, SaltFor(note.user))
        t == fernet_decrypt(key, Encode(note.title))
        c == fernet_decrypt(key, Encode(note.content))
    IN  IF t.ok /\ c.ok
        THEN [none |-> FALSE, title |-> Decode(t.bytes).data,
              content |-> Decode(c.bytes).data]
        ELSE [none |-> FALSE, title |-> note.title.data,
              content |-> note.content.data]

\* Command.decrypt_old_format: both title and content must open.
decrypt_old_format(note, password) ==
    LET key == derive_key(password, SaltFor(note.user))
        t == fernet_decrypt(key, Encode(note.title))
        c == fernet_decrypt(key, Encode(note.content))
    IN  IF t.ok /\ c.ok
        THEN [none |-> FALSE, title |-> Decode(t.bytes).data,
              content |-> Decode(c.bytes).data]
        ELSE None

\* A faulty variant: the title is encrypted into the content field.
encrypt_new_format_title(note, password, decrypted_title, decrypted_content, iv) ==
    LET key == derive_key(password, SaltFor(note.user))
    IN  [note EXCEPT !.title = Plain(decrypted_title),
                     !.content = fernet_encrypt(key, Encode(Plain(decrypted_title)), iv)]

\* Command.encrypt_new_format: the note object after the call.
encrypt_new_format(note, password, decrypted_title, decrypted_content, iv) ==
    LET key == derive_key(password, SaltFor(note.user))
    IN  [note EXCEPT !.title = Plain(decrypted_title),
                     !.content = fernet_encrypt(key, Encode(Plain(decrypted_content)), iv)]

(***************************************************************************)
(* The cipher functions applied to drawn inputs: a text is encrypted for   *)
(* user u1 under p1 by encrypt_new_format, and the ciphertext is then      *)
(* handed, in a note of user u2, to decrypt_old_format with p2.            *)
(***************************************************************************)
CipherInputs ==
    [u1 : UserIds, p1 : Passwords, u2 : UserIds, p2 : Passwords,
     title : {"T"}, content : Plaintexts]

\* No migration has run.
NoRun ==
    [pc |-> "none", user_id |-> 0, dry_run |-> FALSE, password |-> <<>>,
     migrated_count |-> 0, failed_count |-> 0, outcome |-> <<>>]

\* The tables other than Note, NoteVersion and Folder are empty.
NoOtherRows ==
    /\ tags = {}
    /\ sharedNotes = <<>>
    /\ sharedFolders = <<>>
    /\ elements = <<>>
    /\ nextId = [folder |-> 1, shared_note |-> 1, shared_folder |-> 1, element |-> 1]

CipherIdle ==
    /\ cin = [u1 |-> 1, p1 |-> "pw1", u2 |-> 1, p2 |-> "pw1",
              title |-> "T", content |-> ""]
    /\ mnote = [user |-> 1, title |-> Plain("T"), content |-> Plain("")]
    /\ decrypted = None
    /\ cpc = "idle"
    /\ mig = NoRun

\* The legacy row of a note: its title is a token too, made with the key
\* that made the content token.
OldFormat(note, iv) ==
    [note EXCEPT !.title = [kind |-> "token", key |-> note.content.key,
                            iv |-> iv, data |-> note.title.data]]

InitCipher ==
    /\ cin \in CipherInputs
    /\ mnote = [user |-> cin.u1, title |-> Plain(cin.title),
                content |-> Plain(cin.content)]
    /\ decrypted = None
    /\ cpc = "start"
    /\ mig = NoRun
    /\ notes = <<>>
    /\ versions = <<>>
    /\ folders = <<>>
    /\ session = [u \in WebUsers |-> <<>>]
    /\ nextPk = 1
    /\ last = [op |-> "none"]
    /\ NoOtherRows

\* encrypt_new_format(note, p1, title, content) on the note of user u1.
EncryptStep(iv) ==
    /\ cpc = "start"
    /\ mnote' = encrypt_new_format(mnote, cin.p1, mnote.title.data,
                                   mnote.content.data, iv)
    /\ cpc' = "encrypted"
    /\ UNCHANGED <<cin, decrypted, mig>>
    /\ UNCHANGED webVars

\* decrypt_old_format(note, p2) on a note of user u2 that holds the
\* ciphertext, either as a legacy row (title encrypted) or as it is.
DecryptStep(legacy, iv) ==
    /\ cpc = "encrypted"
    /\ LET held == [mnote EXCEPT !.user = cin.u2]
           note == IF legacy THEN OldFormat(held, iv) ELSE held
       IN  /\ mnote' = note
           /\ decrypted' = decrypt_old_format(note, cin.p2)
    /\ cpc' = "decrypted"
    /\ UNCHANGED <<cin, mig>>
    /\ UNCHANGED webVars

NextCipher ==
    \/ \E iv \in IVs : EncryptStep(iv)
    \/ \E legacy \in BOOLEAN, iv \in IVs : DecryptStep(legacy, iv)

SpecCipher == InitCipher /\ [][NextCipher]_vars

C9_WrongPassword ==
    (cpc = "decrypted" /\ cin.u2 = cin.u1 /\ cin.p2 # cin.p1)
    => decrypted = None

C9_Witness ==
    /\ cpc = "decrypted" /\ mnote.title.kind = "token"
    /\ mnote.content.kind = "token" /\ mnote.content.data = "a"
    /\ cin.u2 = cin.u1 /\ cin.p2 # cin.p1
    /\ decrypted = None

\* C10: for distinct user ids u1 # u2 and the same password, a ciphertext
\* encrypted for u1 fails to decrypt for u2.
C10_CrossUser ==
    (cpc = "decrypted" /\ cin.u2 # cin.u1 /\ cin.p2 = cin.p1)
    => decrypted = None

(***************************************************************************)
(* Personal-note views (notes/views.py)                                    *)
(***************************************************************************)
Pks == 1..MaxNotes

\* request.POST.get(name) of a field that was not sent.
Absent == [kind |-> "absent", key |-> NoKey, iv |-> 0, data |-> ""]

\* Truthiness of a POST field: None and "" are falsy.
Given(field) == field.kind # "absent" /\ Truthy(field)

\* The "folder" POST field: not sent, or sent as "" (id 0) or as an id.
NoFolderField == [sent |-> FALSE, id |-> 0]
FolderField(i) == [sent |-> TRUE, id |-> i]
NoFolder == 0

\* A ciphertext as the browser makes it for user u: the text encrypted
\* under the user's key for the password.
ClientToken(u, password, text) ==
    fernet_encrypt(derive_key(password, SaltFor(u)), Encode(Plain(text)), 1)

Response(op, u, pk, outcome, cipher) ==
    [op |-> op, user |-> u, pk |-> pk, outcome |-> outcome, cipher |-> cipher]

\* A faulty variant: the lookup does not filter on the requesting user.
NotFoundAnyUser(u, pk) == pk \notin DOMAIN notes

\* get_object_or_404(Note, pk=pk, user=request.user) finds no row.
NotFound(u, pk) == pk \notin DOMAIN notes \/ notes[pk].user # u

\* A faulty variant: the folder lookup does not filter on the requesting user.
FolderOfAnyUser(u, fid) == IF fid \in DOMAIN folders THEN fid ELSE NoFolder

\* Folder.objects.get(id=folder_id, user=request.user)
FolderOf(u, fid) ==
    IF fid \in DOMAIN folders /\ folders[fid].user = u THEN fid ELSE NoFolder

\* A faulty variant: the version row does not copy is_locked and keeps the
\* column default.
SnapshotDefaultLock(note) ==
    [title |-> note.title, content |-> note.content,
     is_locked |-> FALSE, salt |-> note.salt]

\* The row NoteVersion.objects.create(...) copies from the note.
Snapshot(note) ==
    [title |-> note.title, content |-> note.content,
     is_locked |-> note.is_locked, salt |-> note.salt]

\* Note.decrypt_content(password), which note_unlock calls and models.py
\* does not define: taken from the design's decrypt contract -- open the
\* stored content with the key derived from the password and the owner's
\* salt; None when it fails.
decrypt_content(note, password) ==
    LET key == derive_key(password, SaltFor(note.user))
        r == fernet_decrypt(key, Encode(note.content))
    IN  IF r.ok THEN [none |-> FALSE, str |-> Decode(r.bytes).data]
        ELSE [none |-> TRUE, str |-> ""]

\* A faulty variant: the slot is stored whatever decrypt_content returned.
IfDecryptedAlways(d) == TRUE

\* "if decrypted:" -- None and the empty string are falsy.
IfDecrypted(d) == ~d.none /\ d.str # ""

\* final_content = encrypted_content if encrypted_content else content
FinalContent(content, encrypted_content) ==
    IF Given(encrypted_content) THEN encrypted_content ELSE content

\* final_content or ""
OrEmpty(text) == IF Given(text) THEN text ELSE Plain("")

\* The "tags" POST field: not sent (or empty), text that is not JSON, or a
\* JSON list of {"name": ..., "color": ...}.
NoTags == [given |-> FALSE, valid |-> FALSE, list |-> <<>>]
BadTags == [given |-> TRUE, valid |-> FALSE, list |-> <<>>]
TagsJson(list) == [given |-> TRUE, valid |-> TRUE, list |-> list]
TagData(name, color) == [name |-> name, color |-> color]

\* str.strip() on the tag names that requests send.
strip(s) == IF s = " work " THEN "work" ELSE s

\* Case folding as name__iexact compares, on the tag names that requests send.
Lower(s) == IF s = "Work" THEN "work" ELSE IF s = "Home" THEN "home" ELSE s

\* A faulty variant: the lookup compares the name exactly.
TagGetExact(table, u, tag_name) ==
    {t \in table : t.user = u /\ t.name = tag_name}

\* Tag.objects.get(user=request.user, name__iexact=tag_name): the rows found.
TagGet(table, u, tag_name) ==
    {t \in table : t.user = u /\ Lower(t.name) = Lower(tag_name)}

\* The key of a Tag row in a tags relation of a note.
TagKey(t) == [user |-> t.user, name |-> t.name]

\* "for tag_data in tags_list": get or create each named tag of user u,
\* update its color, and add it to the note; acc carries the Tag table and
\* the tags added so far.
RECURSIVE ProcessTags(_, _, _)
ProcessTags(u, tags_list, acc) ==
    IF tags_list = <<>> THEN acc
    ELSE LET tag_data == Head(tags_list)
             tag_name == strip(tag_data.name)
             found == TagGet(acc.tags, u, tag_name)
         IN  IF tag_name = ""
             THEN ProcessTags(u, Tail(tags_list), acc)
             ELSE IF found # {}
             THEN LET tag == CHOOSE t \in found : TRUE
                      saved == [tag EXCEPT !.color = tag_data.color]
                  IN  ProcessTags(u, Tail(tags_list),
                         [tags |-> (acc.tags \ {tag}) \cup {saved},
                          linked |-> acc.linked \cup {TagKey(saved)}])
             ELSE LET tag == [user |-> u, name |-> tag_name, color |-> tag_data.color]
                  IN  ProcessTags(u, Tail(tags_list),
                         [tags |-> acc.tags \cup {tag},
                          linked |-> acc.linked \cup {TagKey(tag)}])

\* The tag processing of a save by user u: nothing when the field is empty
\* or is not JSON (json.JSONDecodeError is swallowed).
TagsOf(u, tags_data) ==
    IF tags_data.given /\ tags_data.valid
    THEN ProcessTags(u, tags_data.list, [tags |-> tags, linked |-> {}])
    ELSE [tags |-> tags, linked |-> {}]

Init ==
    /\ notes = <<>>
    /\ versions = <<>>
    /\ folders = <<>>
    /\ session = [u \in WebUsers |-> <<>>]
    /\ nextPk = 1
    /\ last = Response("none", 1, 1, "none", FALSE)
    /\ NoOtherRows
    /\ CipherIdle

\* The table f with row k added or replaced.
Put(f, k, row) == [x \in DOMAIN f \cup {k} |-> IF x = k THEN row ELSE f[x]]

\* The table f without row k.
Drop(f, k) == [x \in DOMAIN f \ {k} |-> f[x]]

NoteCreate(u, method, title, content, encrypted_content, is_locked, salt, folder_id, note_type, tags_data) ==
    LET final_content == FinalContent(content, encrypted_content)
        unchanged == UNCHANGED <<notes, versions, folders, session, nextPk, tags>>
        processed == IF note_type = "markdown" THEN TagsOf(u, tags_data)
                     ELSE [tags |-> tags, linked |-> {}]
    IN
    /\ IF method # "POST"
       THEN /\ last' = Response("note_create", u, 0, "render:note_form", FALSE)
            /\ unchanged
       ELSE IF note_type = "canvas" /\ is_locked
       THEN /\ last' = Response("note_create", u, 0,
                                "redirect:note_create:Canvas notes cannot be encrypted.", FALSE)
            /\ unchanged
       ELSE IF ~Given(title)
       THEN /\ last' = Response("note_create", u, 0,
                                "render:note_form:Title is required.", FALSE)
            /\ unchanged
       ELSE IF ~Given(final_content) /\ note_type # "canvas"
       THEN /\ last' = Response("note_create", u, 0,
                                "redirect:note_create:Content is required.", FALSE)
            /\ unchanged
       ELSE /\ nextPk <= MaxNotes
            /\ notes' = Put(notes, nextPk,
                   [user |-> u,
                    title |-> title,
                    content |-> OrEmpty(final_content),
                    note_type |-> note_type,
                    is_locked |-> IF note_type # "canvas" THEN is_locked ELSE FALSE,
                    salt |-> IF note_type # "canvas" THEN OrEmpty(salt) ELSE Plain(""),
                    folder |-> IF folder_id.sent /\ folder_id.id # 0
                               THEN FolderOf(u, folder_id.id) ELSE NoFolder,
                    tags |-> processed.linked])
            /\ tags' = processed.tags
            /\ versions' = Put(versions, nextPk, <<>>)
            /\ nextPk' = nextPk + 1
            /\ last' = Response("note_create", u, nextPk, "redirect:note_view", FALSE)
            /\ UNCHANGED <<folders, session>>
    /\ UNCHANGED <<sharedNotes, sharedFolders, elements, nextId>>
    /\ UNCHANGED commandVars

\* A faulty variant: an AJAX save also stores the posted title.
NoteEditAjaxTitle(u, pk, method, title, content, encrypted_content, is_locked, salt, folder_id, is_ajax_update, tags_data) ==
    LET final_content == FinalContent(content, encrypted_content)
        unchanged == UNCHANGED <<notes, versions, folders, session, nextPk, tags>>
        processed == TagsOf(u, tags_data)
    IN
    /\ IF NotFound(u, pk)
       THEN /\ last' = Response("note_edit", u, pk, "404", FALSE)
            /\ unchanged
       ELSE IF method # "POST"
       THEN /\ last' = Response("note_edit", u, pk, "render:note_form", FALSE)
            /\ unchanged
       ELSE IF ~((is_ajax_update /\ Given(final_content))
                 \/ (Given(title) /\ Given(final_content)))
       THEN /\ last' = Response("note_edit", u, pk,
                                "render:note_form:Title and content are required.", FALSE)
            /\ unchanged
       ELSE LET note == notes[pk]
                folder == IF is_ajax_update \/ ~folder_id.sent THEN note.folder
                          ELSE IF folder_id.id # 0 THEN FolderOf(u, folder_id.id)
                          ELSE NoFolder
            IN
            /\ is_ajax_update \/ Len(versions[pk]) < MaxVersions
            /\ versions' = IF is_ajax_update THEN versions
                           ELSE [versions EXCEPT ![pk] = Append(@, Snapshot(note))]
            /\ notes' = [notes EXCEPT ![pk] =
                   [note EXCEPT
                      !.title = IF Given(title) THEN title ELSE @,
                      !.content = final_content,
                      !.is_locked = is_locked,
                      !.salt = IF salt.kind = "absent" THEN @ ELSE salt,
                      !.folder = folder,
                      !.tags = IF is_ajax_update THEN @ ELSE processed.linked]]
            /\ tags' = IF is_ajax_update THEN tags ELSE processed.tags
            /\ last' = Response("note_edit", u, pk,
                                IF is_ajax_update THEN "json:success"
                                ELSE "redirect:note_view", FALSE)
            /\ UNCHANGED <<folders, session, nextPk>>
    /\ UNCHANGED <<sharedNotes, sharedFolders, elements, nextId>>
    /\ UNCHANGED commandVars

NoteEdit(u, pk, method, title, content, encrypted_content, is_locked, salt, folder_id, is_ajax_update, tags_data) ==
    LET final_content == FinalContent(content, encrypted_content)
        unchanged == UNCHANGED <<notes, versions, folders, session, nextPk, tags>>
        processed == TagsOf(u, tags_data)
    IN
    /\ IF NotFound(u, pk)
       THEN /\ last' = Response("note_edit", u, pk, "404", FALSE)
            /\ unchanged
       ELSE IF method # "POST"
       THEN /\ last' = Response("note_edit", u, pk, "render:note_form", FALSE)
            /\ unchanged
       ELSE IF ~((is_ajax_update /\ Given(final_content))
                 \/ (Given(title) /\ Given(final_content)))
       THEN /\ last' = Response("note_edit", u, pk,
                                "render:note_form:Title and content are required.", FALSE)
            /\ unchanged
       ELSE LET note == notes[pk]
                folder == IF is_ajax_update \/ ~folder_id.sent THEN note.folder
                          ELSE IF folder_id.id # 0 THEN FolderOf(u, folder_id.id)
                          ELSE NoFolder
            IN
            /\ is_ajax_update \/ Len(versions[pk]) < MaxVersions
            /\ versions' = IF is_ajax_update THEN versions
                           ELSE [versions EXCEPT ![pk] = Append(@, Snapshot(note))]
            /\ notes' = [notes EXCEPT ![pk] =
                   [note EXCEPT
                      !.title = IF ~is_ajax_update /\ Given(title) THEN title ELSE @,
                      !.content = final_content,
                      !.is_locked = is_locked,
                      !.salt = IF salt.kind = "absent" THEN @ ELSE salt,
                      !.folder = folder,
                      !.tags = IF is_ajax_update THEN @ ELSE processed.linked]]
            /\ tags' = IF is_ajax_update THEN tags ELSE processed.tags
            /\ last' = Response("note_edit", u, pk,
                                IF is_ajax_update THEN "json:success"
                                ELSE "redirect:note_view", FALSE)
            /\ UNCHANGED <<folders, session, nextPk>>
    /\ UNCHANGED <<sharedNotes, sharedFolders, elements, nextId>>
    /\ UNCHANGED commandVars

NoteDelete(u, pk, method) ==
    /\ IF NotFound(u, pk)
       THEN /\ last' = Response("note_delete", u, pk, "404", FALSE)
            /\ UNCHANGED <<notes, versions, elements>>
       ELSE IF method # "POST"
       THEN /\ last' = Response("note_delete", u, pk, "render:note_confirm_delete", FALSE)
            /\ UNCHANGED <<notes, versions, elements>>
       ELSE /\ notes' = Drop(notes, pk)
            /\ versions' = Drop(versions, pk)
            /\ elements' = [e \in {x \in DOMAIN elements : elements[x].note # pk}
                               |-> elements[e]]
            /\ last' = Response("note_delete", u, pk, "redirect:note_list", FALSE)
    /\ UNCHANGED <<folders, session, nextPk>>
    /\ UNCHANGED <<tags, sharedNotes, sharedFolders, nextId>>
    /\ UNCHANGED commandVars

NoteUnlock(u, pk, method, password, next) ==
    /\ IF NotFound(u, pk)
       THEN /\ last' = Response("note_unlock", u, pk, "404", FALSE)
            /\ UNCHANGED session
       ELSE IF ~notes[pk].is_locked
       THEN /\ last' = Response("note_unlock", u, pk,
                                "redirect:note_edit:This note is not locked.", FALSE)
            /\ UNCHANGED session
       ELSE IF method # "POST"
       THEN /\ last' = Response("note_unlock", u, pk, "render:note_unlock", FALSE)
            /\ UNCHANGED session
       ELSE IF password = ""
       THEN /\ last' = Response("note_unlock", u, pk,
                                "render:note_unlock:Password is required.", FALSE)
            /\ UNCHANGED session
       ELSE LET decrypted_ == decrypt_content(notes[pk], password) IN
            IF IfDecrypted(decrypted_)
            THEN /\ session' = [session EXCEPT ![u] = Put(@, pk,
                        [unlocked_content |-> decrypted_.str, password |-> password])]
                 /\ last' = Response("note_unlock", u, pk,
                                     IF next = "note_view" THEN "redirect:note_view"
                                     ELSE "redirect:note_edit", TRUE)
            ELSE /\ last' = Response("note_unlock", u, pk,
                                     "render:note_unlock:Incorrect password.", TRUE)
                 /\ UNCHANGED session
    /\ UNCHANGED <<notes, versions, folders, nextPk>>
    /\ UNCHANGED otherTables
    /\ UNCHANGED commandVars

NoteView(u, pk) ==
    /\ last' = Response("note_view", u, pk,
                        IF NotFound(u, pk) THEN "404" ELSE "render:note_view", FALSE)
    /\ UNCHANGED <<notes, versions, folders, session, nextPk>>
    /\ UNCHANGED otherTables
    /\ UNCHANGED commandVars

NoteHistory(u, pk) ==
    /\ last' = Response("note_history", u, pk,
                        IF NotFound(u, pk) THEN "404" ELSE "render:note_history", FALSE)
    /\ UNCHANGED <<notes, versions, folders, session, nextPk>>
    /\ UNCHANGED otherTables
    /\ UNCHANGED commandVars

NoteMove(u, pk, method, folder_id) ==
    /\ IF NotFound(u, pk)
       THEN /\ last' = Response("note_move", u, pk, "404", FALSE)
            /\ UNCHANGED notes
       ELSE IF method # "POST"
       THEN /\ last' = Response("note_move", u, pk, "json:Invalid request method", FALSE)
            /\ UNCHANGED notes
       ELSE IF folder_id.sent /\ folder_id.id # 0 /\ FolderOf(u, folder_id.id) = NoFolder
       THEN /\ last' = Response("note_move", u, pk, "json:Folder not found", FALSE)
            /\ UNCHANGED notes
       ELSE /\ notes' = [notes EXCEPT ![pk].folder =
                           IF folder_id.sent /\ folder_id.id # 0
                           THEN FolderOf(u, folder_id.id) ELSE NoFolder]
            /\ last' = Response("note_move", u, pk, "json:success", FALSE)
    /\ UNCHANGED <<versions, folders, session, nextPk>>
    /\ UNCHANGED otherTables
    /\ UNCHANGED commandVars

(***************************************************************************)
(* Folder views (folder_create, folder_rename, folder_delete)              *)
(***************************************************************************)
MaxFolders == 3      \* Folder rows ever created

FolderIds == 1..MaxFolders

\* get_object_or_404(Folder, id=folder_id, user=request.user) finds no row.
FolderNotFound(u, fid) == fid \notin DOMAIN folders \/ folders[fid].user # u

\* Folder.objects.filter(user=u, name=name, parent=parent)
FoldersNamed(u, name, parent) ==
    {g \in DOMAIN folders :
        folders[g].user = u /\ folders[g].name = name /\ folders[g].parent = parent}

FolderCreate(u, method, name, parent_id) ==
    LET reply(outcome) ==
            /\ last' = Response("folder_create", u, 0, outcome, FALSE)
            /\ UNCHANGED <<folders, nextId>>
        has_parent == parent_id.sent /\ parent_id.id # 0
    IN
    /\ IF method # "POST" THEN reply("json:Invalid request method")
       ELSE IF strip(name) = "" THEN reply("json:Folder name is required")
       ELSE IF has_parent /\ FolderOf(u, parent_id.id) = NoFolder
       THEN reply("json:Parent folder not found")
       ELSE LET parent == IF has_parent THEN parent_id.id ELSE NoFolder IN
            IF FoldersNamed(u, strip(name), parent) # {}
            THEN reply("json:A folder with this name already exists")
            ELSE /\ nextId.folder <= MaxFolders
                 /\ folders' = Put(folders, nextId.folder,
                        [user |-> u, name |-> strip(name), parent |-> parent])
                 /\ nextId' = [nextId EXCEPT !.folder = @ + 1]
                 /\ last' = Response("folder_create", u, nextId.folder,
                                     "json:success", FALSE)
    /\ UNCHANGED <<notes, versions, session, nextPk>>
    /\ UNCHANGED <<tags, sharedNotes, sharedFolders, elements>>
    /\ UNCHANGED commandVars

FolderRename(u, fid, method, name) ==
    LET reply(outcome) ==
            /\ last' = Response("folder_rename", u, fid, outcome, FALSE)
            /\ UNCHANGED folders
    IN
    /\ IF FolderNotFound(u, fid) THEN reply("404")
       ELSE IF method # "POST" THEN reply("json:Invalid request method")
       ELSE IF strip(name) = "" THEN reply("json:Folder name is required")
       ELSE IF FoldersNamed(u, strip(name), folders[fid].parent) \ {fid} # {}
       THEN reply("json:A folder with this name already exists")
       ELSE /\ folders' = [folders EXCEPT ![fid].name = strip(name)]
            /\ last' = Response("folder_rename", u, fid, "json:success", FALSE)
    /\ UNCHANGED <<notes, versions, session, nextPk>>
    /\ UNCHANGED otherTables
    /\ UNCHANGED commandVars

\* unique_together = ["user", "name", "parent"]: the UPDATE that gives the
\* subfolders of fid the parent of fid would leave two rows with the same
\* user, name and (non-null) parent.  Rows with a null parent never clash.
ReparentClashes(fid) ==
    LET parent == folders[fid].parent IN
    /\ parent # NoFolder
    /\ \E c \in DOMAIN folders, g \in DOMAIN folders :
          /\ folders[c].parent = fid
          /\ g # c
          /\ folders[g].parent = parent
          /\ folders[g].user = folders[c].user
          /\ folders[g].name = folders[c].name

\* folder_delete; atomic tells whether the request runs in one transaction
\* (ATOMIC_REQUESTS), which decides what an IntegrityError leaves behind.
FolderDelete(u, fid, method, atomic) ==
    /\ IF FolderNotFound(u, fid)
       THEN /\ last' = Response("folder_delete", u, fid, "404", FALSE)
            /\ UNCHANGED <<notes, folders>>
       ELSE IF method # "POST"
       THEN /\ last' = Response("folder_delete", u, fid,
                                "render:folder_confirm_delete", FALSE)
            /\ UNCHANGED <<notes, folders>>
       ELSE LET parent == folders[fid].parent
                moved == [pk \in DOMAIN notes |->
                            IF notes[pk].folder = fid
                            THEN [notes[pk] EXCEPT !.folder = parent]
                            ELSE notes[pk]]
            IN  IF ReparentClashes(fid)
                THEN /\ notes' = IF atomic THEN notes ELSE moved
                     /\ UNCHANGED folders
                     /\ last' = Response("folder_delete", u, fid,
                                         "500:IntegrityError", FALSE)
                ELSE /\ notes' = moved
                     /\ folders' = [g \in DOMAIN folders \ {fid} |->
                                      IF folders[g].parent = fid
                                      THEN [folders[g] EXCEPT !.parent = parent]
                                      ELSE folders[g]]
                     /\ last' = Response("folder_delete", u, fid,
                                         "redirect:note_list", FALSE)
    /\ UNCHANGED <<versions, session, nextPk>>
    /\ UNCHANGED otherTables
    /\ UNCHANGED commandVars

(***************************************************************************)
(* Requests of the folder tree: two users create, rename and delete        *)
(* folders and file one note.                                              *)
(***************************************************************************)
FolderNames == {"", "X", "Y"}
FolderFields == {NoFolderField} \cup {FolderField(i) : i \in FolderIds}

NextFolders ==
    \/ \E u \in WebUsers, m \in {"GET", "POST"}, n \in FolderNames,
          f \in FolderFields : FolderCreate(u, m, n, f)
    \/ \E u \in WebUsers, fid \in FolderIds, m \in {"GET", "POST"},
          n \in FolderNames : FolderRename(u, fid, m, n)
    \/ \E u \in WebUsers, fid \in FolderIds, m \in {"GET", "POST"},
          atomic \in BOOLEAN : FolderDelete(u, fid, m, atomic)
    \/ \E u \in WebUsers, f \in FolderFields :
          NoteCreate(u, "POST", Plain("T"), Plain("a"), Absent, FALSE, Absent,
                     f, "markdown", NoTags)
    \/ \E u \in WebUsers, pk \in Pks, f \in FolderFields :
          NoteMove(u, pk, "POST", f)

SpecFolders == Init /\ [][NextFolders]_vars

(***************************************************************************)
(* Requests that file notes and folders: two users create and delete       *)
(* folders and create, edit and move notes, naming any folder id.          *)
(***************************************************************************)
NextOwnership ==
    \/ \E u \in WebUsers, f \in FolderFields : FolderCreate(u, "POST", "X", f)
    \/ \E u \in WebUsers, fid \in FolderIds, atomic \in BOOLEAN :
          FolderDelete(u, fid, "POST", atomic)
    \/ \E u \in WebUsers, f \in FolderFields :
          NoteCreate(u, "POST", Plain("T"), Plain("a"), Absent, FALSE, Absent,
                     f, "markdown", NoTags)
    \/ \E u \in WebUsers, pk \in Pks, f \in FolderFields \cup {FolderField(0)} :
          NoteEdit(u, pk, "POST", Plain("T"), Plain("a"), Absent, FALSE, Absent,
                   f, FALSE, NoTags)
    \/ \E u \in WebUsers, pk \in Pks, f \in FolderFields :
          NoteMove(u, pk, "POST", f)

SpecOwnership == Init /\ [][NextOwnership]_vars

(***************************************************************************)
(* Shared notes and shared folders (the shared_note and shared_folder    *)
(* views)                                                                  *)
(***************************************************************************)
MaxSharedNotes == 1      \* SharedNote rows ever created
MaxSharedFolders == 2    \* SharedFolder rows ever created

AllUsers == {1, 2, 3}
SharedNoteIds == 1..MaxSharedNotes
SharedFolderIds == 1..MaxSharedFolders

\* The Friendship rows: user 1 is a friend of user 2 and of user 3.
Friendships == {{1, 2}, {1, 3}}

\* Friendship.are_friends(user1, user2)
are_friends(a, b) == a # b /\ {a, b} \in Friendships

\* A faulty variant: every authenticated user is let in.
has_access_anyone(row, u) == TRUE

\* SharedNote.has_access / SharedFolder.has_access
has_access(row, u) == u = row.user1 \/ u = row.user2

\* sorted([request.user, friend], key=lambda u: u.id)
Min(a, b) == IF a <= b THEN a ELSE b
Max(a, b) == IF a <= b THEN b ELSE a

\* SharedFolder.objects.get(id=folder_id) finds a row the user may use.
SharedFolderFor(u, fid) ==
    fid \in DOMAIN sharedFolders /\ has_access(sharedFolders[fid], u)

SharedNoteCreate(u, friend, method, title, content, encrypted_content, is_locked, salt, folder_id, note_type, tags_data) ==
    LET final_content == FinalContent(content, encrypted_content)
        reply(outcome) ==
            /\ last' = Response("shared_note_create", u, 0, outcome, FALSE)
            /\ UNCHANGED <<sharedNotes, tags, nextId>>
        processed == IF note_type = "markdown" THEN TagsOf(u, tags_data)
                     ELSE [tags |-> tags, linked |-> {}]
    IN
    /\ IF ~are_friends(u, friend)
       THEN reply("redirect:friends_list:You can only create shared notes with friends.")
       ELSE IF method # "POST" THEN reply("render:shared_note_form")
       ELSE IF note_type = "canvas" /\ is_locked
       THEN reply("redirect:shared_note_create:Canvas notes cannot be encrypted.")
       ELSE IF ~Given(title) THEN reply("render:shared_note_form:Title is required.")
       ELSE IF ~Given(final_content) /\ note_type # "canvas"
       THEN reply("redirect:shared_note_create:Content is required.")
       ELSE /\ nextId.shared_note <= MaxSharedNotes
            /\ sharedNotes' = Put(sharedNotes, nextId.shared_note,
                   [user1 |-> Min(u, friend),
                    user2 |-> Max(u, friend),
                    title |-> title,
                    content |-> OrEmpty(final_content),
                    note_type |-> note_type,
                    is_locked |-> IF note_type # "canvas" THEN is_locked ELSE FALSE,
                    salt |-> IF note_type # "canvas" THEN OrEmpty(salt) ELSE Plain(""),
                    created_by |-> u,
                    folder |-> IF folder_id.sent /\ folder_id.id # 0
                                  /\ SharedFolderFor(u, folder_id.id)
                               THEN folder_id.id ELSE NoFolder,
                    tags |-> processed.linked])
            /\ tags' = processed.tags
            /\ nextId' = [nextId EXCEPT !.shared_note = @ + 1]
            /\ last' = Response("shared_note_create", u, nextId.shared_note,
                                "redirect:shared_note_view", FALSE)
    /\ UNCHANGED <<notes, versions, folders, session, nextPk>>
    /\ UNCHANGED <<sharedFolders, elements>>
    /\ UNCHANGED commandVars

SharedNoteView(u, id) ==
    /\ last' = Response("shared_note_view", u, id,
                        IF id \notin DOMAIN sharedNotes THEN "404"
                        ELSE IF ~has_access(sharedNotes[id], u)
                        THEN "redirect:friends_list:You don't have access to this note."
                        ELSE "render:shared_note_view", FALSE)
    /\ UNCHANGED <<notes, versions, folders, session, nextPk>>
    /\ UNCHANGED otherTables
    /\ UNCHANGED commandVars

SharedNoteEdit(u, id, method, title, content, encrypted_content, is_locked, salt, folder_id, is_ajax_update, tags_data) ==
    LET final_content == FinalContent(content, encrypted_content)
        reply(outcome) ==
            /\ last' = Response("shared_note_edit", u, id, outcome, FALSE)
            /\ UNCHANGED <<sharedNotes, tags>>
        processed == TagsOf(u, tags_data)
    IN
    /\ IF id \notin DOMAIN sharedNotes THEN reply("404")
       ELSE IF ~has_access(sharedNotes[id], u)
       THEN reply("redirect:friends_list:You don't have access to this note.")
       ELSE IF method # "POST" THEN reply("render:shared_note_form")
       ELSE IF ~((is_ajax_update /\ Given(final_content))
                 \/ (Given(title) /\ Given(final_content)))
       THEN reply("render:shared_note_form:Title and content are required.")
       ELSE LET shared_note == sharedNotes[id]
                folder == IF is_ajax_update \/ ~folder_id.sent THEN shared_note.folder
                          ELSE IF folder_id.id = 0 THEN NoFolder
                          ELSE IF folder_id.id \notin DOMAIN sharedFolders THEN NoFolder
                          ELSE IF has_access(sharedFolders[folder_id.id], u)
                          THEN folder_id.id
                          ELSE shared_note.folder
            IN
            /\ sharedNotes' = [sharedNotes EXCEPT ![id] =
                   [shared_note EXCEPT
                      !.title = IF ~is_ajax_update /\ Given(title) THEN title ELSE @,
                      !.content = final_content,
                      !.is_locked = is_locked,
                      !.salt = IF salt.kind = "absent" THEN @ ELSE salt,
                      !.folder = folder,
                      !.tags = IF is_ajax_update THEN @ ELSE processed.linked]]
            /\ tags' = IF is_ajax_update THEN tags ELSE processed.tags
            /\ last' = Response("shared_note_edit", u, id,
                                IF is_ajax_update THEN "json:success"
                                ELSE "redirect:shared_note_view", FALSE)
    /\ UNCHANGED <<notes, versions, folders, session, nextPk>>
    /\ UNCHANGED <<sharedFolders, elements, nextId>>
    /\ UNCHANGED commandVars

SharedNoteDelete(u, id, method) ==
    LET reply(outcome) ==
            /\ last' = Response("shared_note_delete", u, id, outcome, FALSE)
            /\ UNCHANGED <<sharedNotes, elements>>
    IN
    /\ IF id \notin DOMAIN sharedNotes THEN reply("404")
       ELSE IF ~has_access(sharedNotes[id], u)
       THEN reply("redirect:friends_list:You don't have access to this note.")
       ELSE IF method # "POST" THEN reply("render:shared_note_confirm_delete")
       ELSE /\ sharedNotes' = Drop(sharedNotes, id)
            /\ elements' = [e \in {x \in DOMAIN elements : elements[x].shared_note # id}
                               |-> elements[e]]
            /\ last' = Response("shared_note_delete", u, id,
                                "redirect:shared_notes_list", FALSE)
    /\ UNCHANGED <<notes, versions, folders, session, nextPk>>
    /\ UNCHANGED <<tags, sharedFolders, nextId>>
    /\ UNCHANGED commandVars

SharedNoteMove(u, id, method, folder_id) ==
    LET reply(outcome) ==
            /\ last' = Response("shared_note_move", u, id, outcome, FALSE)
            /\ UNCHANGED sharedNotes
    IN
    /\ IF id \notin DOMAIN sharedNotes THEN reply("404")
       ELSE IF ~has_access(sharedNotes[id], u) THEN reply("json:Access denied")
       ELSE IF method # "POST" THEN reply("json:Invalid request method")
       ELSE IF folder_id.sent /\ folder_id.id # 0
               /\ folder_id.id \notin DOMAIN sharedFolders
       THEN reply("json:Folder not found")
       ELSE IF folder_id.sent /\ folder_id.id # 0
               /\ ~has_access(sharedFolders[folder_id.id], u)
       THEN reply("json:Access denied to folder")
       ELSE /\ sharedNotes' = [sharedNotes EXCEPT ![id].folder =
                                  IF folder_id.sent /\ folder_id.id # 0
                                  THEN folder_id.id ELSE NoFolder]
            /\ last' = Response("shared_note_move", u, id, "json:success", FALSE)
    /\ UNCHANGED <<notes, versions, folders, session, nextPk>>
    /\ UNCHANGED <<tags, sharedFolders, elements, nextId>>
    /\ UNCHANGED commandVars

\* SharedFolder.objects.filter(user1=.., user2=.., name=name, parent=parent)
SharedFoldersNamed(user1, user2, name, parent) ==
    {g \in DOMAIN sharedFolders :
        /\ sharedFolders[g].user1 = user1 /\ sharedFolders[g].user2 = user2
        /\ sharedFolders[g].name = name /\ sharedFolders[g].parent = parent}

SharedFolderCreate(u, friend, method, name, parent_id) ==
    LET reply(outcome) ==
            /\ last' = Response("shared_folder_create", u, 0, outcome, FALSE)
            /\ UNCHANGED <<sharedFolders, nextId>>
        has_parent == parent_id.sent /\ parent_id.id # 0
        parent == IF has_parent THEN parent_id.id ELSE NoFolder
    IN
    /\ IF ~are_friends(u, friend)
       THEN reply("json:You can only create shared folders with friends")
       ELSE IF method # "POST" THEN reply("json:Invalid request method")
       ELSE IF strip(name) = "" THEN reply("json:Folder name is required")
       ELSE IF has_parent /\ parent_id.id \notin DOMAIN sharedFolders
       THEN reply("json:Parent folder not found")
       ELSE IF has_parent /\ ~has_access(sharedFolders[parent_id.id], u)
       THEN reply("json:Access denied to parent folder")
       ELSE IF SharedFoldersNamed(Min(u, friend), Max(u, friend), strip(name), parent) # {}
       THEN reply("json:A folder with this name already exists")
       ELSE /\ nextId.shared_folder <= MaxSharedFolders
            /\ sharedFolders' = Put(sharedFolders, nextId.shared_folder,
                   [user1 |-> Min(u, friend), user2 |-> Max(u, friend),
                    name |-> strip(name), parent |-> parent])
            /\ nextId' = [nextId EXCEPT !.shared_folder = @ + 1]
            /\ last' = Response("shared_folder_create", u, nextId.shared_folder,
                                "json:success", FALSE)
    /\ UNCHANGED <<notes, versions, folders, session, nextPk>>
    /\ UNCHANGED <<tags, sharedNotes, elements>>
    /\ UNCHANGED commandVars

SharedFolderRename(u, fid, method, name) ==
    LET reply(outcome) ==
            /\ last' = Response("shared_folder_rename", u, fid, outcome, FALSE)
            /\ UNCHANGED sharedFolders
    IN
    /\ IF fid \notin DOMAIN sharedFolders THEN reply("404")
       ELSE IF ~has_access(sharedFolders[fid], u) THEN reply("json:Access denied")
       ELSE IF method # "POST" THEN reply("json:Invalid request method")
       ELSE IF strip(name) = "" THEN reply("json:Folder name is required")
       ELSE IF SharedFoldersNamed(sharedFolders[fid].user1, sharedFolders[fid].user2,
                                  strip(name), sharedFolders[fid].parent) \ {fid} # {}
       THEN reply("json:A folder with this name already exists")
       ELSE /\ sharedFolders' = [sharedFolders EXCEPT ![fid].name = strip(name)]
            /\ last' = Response("shared_folder_rename", u, fid, "json:success", FALSE)
    /\ UNCHANGED <<notes, versions, folders, session, nextPk>>
    /\ UNCHANGED <<tags, sharedNotes, elements, nextId>>
    /\ UNCHANGED commandVars

\* unique_together = [["user1", "user2", "name", "parent"]] as the UPDATE of
\* the subfolders of fid meets it.
SharedReparentClashes(fid) ==
    LET parent == sharedFolders[fid].parent IN
    /\ parent # NoFolder
    /\ \E c \in DOMAIN sharedFolders, g \in DOMAIN sharedFolders :
          /\ sharedFolders[c].parent = fid
          /\ g # c
          /\ sharedFolders[g].parent = parent
          /\ sharedFolders[g].user1 = sharedFolders[c].user1
          /\ sharedFolders[g].user2 = sharedFolders[c].user2
          /\ sharedFolders[g].name = sharedFolders[c].name

SharedFolderDelete(u, fid, method, atomic) ==
    LET reply(outcome) ==
            /\ last' = Response("shared_folder_delete", u, fid, outcome, FALSE)
            /\ UNCHANGED <<sharedNotes, sharedFolders>>
    IN
    /\ IF fid \notin DOMAIN sharedFolders THEN reply("404")
       ELSE IF ~has_access(sharedFolders[fid], u)
       THEN reply("redirect:friends_list:Access denied")
       ELSE IF method # "POST" THEN reply("render:shared_folder_confirm_delete")
       ELSE LET parent == sharedFolders[fid].parent
                moved == [id \in DOMAIN sharedNotes |->
                            IF sharedNotes[id].folder = fid
                            THEN [sharedNotes[id] EXCEPT !.folder = parent]
                            ELSE sharedNotes[id]]
            IN  IF SharedReparentClashes(fid)
                THEN /\ sharedNotes' = IF atomic THEN sharedNotes ELSE moved
                     /\ UNCHANGED sharedFolders
                     /\ last' = Response("shared_folder_delete", u, fid,
                                         "500:IntegrityError", FALSE)
                ELSE /\ sharedNotes' = moved
                     /\ sharedFolders' = [g \in DOMAIN sharedFolders \ {fid} |->
                                            IF sharedFolders[g].parent = fid
                                            THEN [sharedFolders[g] EXCEPT !.parent = parent]
                                            ELSE sharedFolders[g]]
                     /\ last' = Response("shared_folder_delete", u, fid,
                                         "redirect:shared_notes_list", FALSE)
    /\ UNCHANGED <<notes, versions, folders, session, nextPk>>
    /\ UNCHANGED <<tags, elements, nextId>>
    /\ UNCHANGED commandVars

(***************************************************************************)
(* Canvas elements (canvas_element_create)                                 *)
(***************************************************************************)
MaxElements == 2     \* CanvasElement rows ever created

\* The JSON body of a canvas_element_create request.  An id of 0 stands for
\* a missing (or falsy) note_id / shared_note_id.
ElementData(element_type, note_id, shared_note_id, text_content, stroke_color, fill_color, path_data) ==
    [json |-> TRUE, element_type |-> element_type, note_id |-> note_id,
     shared_note_id |-> shared_note_id, x |-> 50, y |-> 50, width |-> 200,
     height |-> 100, z_index |-> 0, text_content |-> text_content,
     stroke_color |-> stroke_color, fill_color |-> fill_color,
     path_data |-> path_data]

\* A request body that json.loads rejects.
BadBody == [ElementData("", 0, 0, "", "", "", "") EXCEPT !.json = FALSE]

\* The CanvasElement the view builds: position and size from the body, the
\* text of a textbox, and the model defaults for every other column.
NewElement(data) ==
    [element_type |-> data.element_type,
     x |-> data.x, y |-> data.y, width |-> data.width, height |-> data.height,
     z_index |-> data.z_index,
     text_content |-> IF data.element_type = "textbox" THEN data.text_content ELSE "",
     stroke_color |-> "#000000", fill_color |-> "#ffffff", path_data |-> "",
     note |-> 0, shared_note |-> 0]

CanvasElementCreate(u, method, data) ==
    LET reply(outcome) ==
            /\ last' = Response("canvas_element_create", u,
                                IF data.note_id # 0 THEN data.note_id
                                ELSE data.shared_note_id, outcome, FALSE)
            /\ UNCHANGED <<elements, nextId>>
        save(element) ==
            /\ nextId.element <= MaxElements
            /\ elements' = Put(elements, nextId.element, element)
            /\ nextId' = [nextId EXCEPT !.element = @ + 1]
            /\ last' = Response("canvas_element_create", u,
                                IF data.note_id # 0 THEN data.note_id
                                ELSE data.shared_note_id, "json:success", FALSE)
    IN
    /\ IF method # "POST" THEN reply("json:Invalid request method")
       ELSE IF ~data.json THEN reply("json:Failed to create element")
       ELSE IF data.element_type \notin {"textbox", "image"}
       THEN reply("json:Invalid element type")
       ELSE IF data.note_id # 0
       THEN IF NotFound(u, data.note_id) THEN reply("json:Note not found")
            ELSE IF notes[data.note_id].note_type # "canvas"
            THEN reply("json:Note is not a canvas note")
            ELSE save([NewElement(data) EXCEPT !.note = data.note_id])
       ELSE IF data.shared_note_id # 0
       THEN IF data.shared_note_id \notin DOMAIN sharedNotes
            THEN reply("json:Shared note not found")
            ELSE IF ~has_access(sharedNotes[data.shared_note_id], u)
            THEN reply("json:Access denied")
            ELSE IF sharedNotes[data.shared_note_id].note_type # "canvas"
            THEN reply("json:Shared note is not a canvas note")
            ELSE save([NewElement(data) EXCEPT !.shared_note = data.shared_note_id])
       ELSE reply("json:Note or shared note ID required")
    /\ UNCHANGED <<notes, versions, folders, session, nextPk>>
    /\ UNCHANGED <<tags, sharedNotes, sharedFolders>>
    /\ UNCHANGED commandVars

(***************************************************************************)
(* Requests on canvas notes: two friends create and edit markdown and      *)
(* canvas notes, personal and shared, and add elements to them.            *)
(***************************************************************************)
NoteTypes == {"markdown", "canvas"}

\* The bodies of canvas_element_create requests for note or shared note 1.
ElementInputs ==
    {ElementData("textbox", 1, 0, "hello", "#000000", "#ffffff", ""),
     ElementData("rectangle", 1, 0, "", "#ff0000", "#00ff00", ""),
     ElementData("freehand", 1, 0, "", "#ff0000", "#ffffff", "[[0,0],[1,1]]"),
     ElementData("image", 0, 1, "", "#000000", "#ffffff", ""),
     ElementData("textbox", 0, 0, "hello", "#000000", "#ffffff", ""),
     BadBody}

NextCanvas ==
    \/ \E u \in WebUsers, l \in BOOLEAN, t \in NoteTypes :
          NoteCreate(u, "POST", Plain("T"), Plain("a"), Absent, l, Absent,
                     NoFolderField, t, NoTags)
    \/ \E u \in WebUsers, pk \in Pks, l \in BOOLEAN, a \in BOOLEAN :
          NoteEdit(u, pk, "POST", Plain("T"), Plain("a"), Absent, l, Absent,
                   NoFolderField, a, NoTags)
    \/ \E l \in BOOLEAN, t \in NoteTypes :
          SharedNoteCreate(1, 2, "POST", Plain("T"), Plain("a"), Absent, l, Absent,
                           NoFolderField, t, NoTags)
    \/ \E id \in SharedNoteIds, l \in BOOLEAN, a \in BOOLEAN :
          SharedNoteEdit(2, id, "POST", Plain("T"), Plain("a"), Absent, l, Absent,
                         NoFolderField, a, NoTags)
    \/ \E u \in WebUsers, m \in {"GET", "POST"}, d \in ElementInputs :
          CanvasElementCreate(u, m, d)

SpecCanvas == Init /\ [][NextCanvas]_vars

(***************************************************************************)
(* Requests with tags: user 1 creates and edits personal notes, user 2     *)
(* shared notes with user 1, and the forms carry tag lists.                *)
(***************************************************************************)
Blue == "#3b82f6"
Red == "#ff0000"

TagsInputs ==
    {NoTags, BadTags,
     TagsJson(<<TagData("Work", Blue)>>),
     TagsJson(<<TagData("work", Red)>>),
     TagsJson(<<TagData("work", Blue), TagData("Work", Blue)>>),
     TagsJson(<<TagData(" work ", Blue), TagData("", Blue)>>)}

NextTags ==
    \/ \E g \in TagsInputs, t \in NoteTypes :
          NoteCreate(1, "POST", Plain("T"), Plain("a"), Absent, FALSE, Absent,
                     NoFolderField, t, g)
    \/ \E pk \in Pks, g \in TagsInputs, a \in BOOLEAN :
          NoteEdit(1, pk, "POST", Plain("T"), Plain("a"), Absent, FALSE, Absent,
                   NoFolderField, a, g)
    \/ \E g \in TagsInputs, t \in NoteTypes :
          SharedNoteCreate(2, 1, "POST", Plain("T"), Plain("a"), Absent, FALSE,
                           Absent, NoFolderField, t, g)
    \/ \E u \in WebUsers, id \in SharedNoteIds, g \in TagsInputs, a \in BOOLEAN :
          SharedNoteEdit(u, id, "POST", Plain("T"), Plain("a"), Absent, FALSE,
                         Absent, NoFolderField, a, g)

SpecTags == Init /\ [][NextTags]_vars

(***************************************************************************)
(* Requests on shared notes and folders by three users, of whom user 1 is  *)
(* a friend of the other two.                                              *)
(***************************************************************************)
SharedFolderFields ==
    {NoFolderField} \cup {FolderField(i) : i \in SharedFolderIds}
WorkTag == TagsJson(<<TagData("Work", Blue)>>)

NextShared ==
    \/ \E u \in AllUsers, f \in {1, 2}, d \in SharedFolderFields :
          SharedNoteCreate(u, f, "POST", Plain("T"), Plain("a"), Absent, FALSE,
                           Absent, d, "markdown", WorkTag)
    \/ \E u \in AllUsers, id \in SharedNoteIds : SharedNoteView(u, id)
    \/ \E u \in AllUsers, id \in SharedNoteIds, d \in SharedFolderFields,
          a \in BOOLEAN :
          SharedNoteEdit(u, id, "POST", Plain("U"), Plain("b"), Absent, FALSE,
                         Absent, d, a, NoTags)
    \/ \E u \in AllUsers, id \in SharedNoteIds, m \in {"GET", "POST"} :
          SharedNoteDelete(u, id, m)
    \/ \E u \in AllUsers, id \in SharedNoteIds, d \in SharedFolderFields :
          SharedNoteMove(u, id, "POST", d)
    \/ \E u \in AllUsers, f \in {1, 2}, n \in {"", "X"}, d \in SharedFolderFields :
          SharedFolderCreate(u, f, "POST", n, d)
    \/ \E u \in AllUsers, fid \in SharedFolderIds, n \in {"", "Y"} :
          SharedFolderRename(u, fid, "POST", n)
    \/ \E u \in AllUsers, fid \in SharedFolderIds, atomic \in BOOLEAN :
          SharedFolderDelete(u, fid, "POST", atomic)

SpecShared == Init /\ [][NextShared]_vars

(***************************************************************************)
(* Requests of the edit form: user 1 files a tagged note in a folder and   *)
(* saves it, by form and by AJAX, with fields that pass or fail validation *)
(* and that always carry another title, folder and tag list.               *)
(***************************************************************************)
HomeTag == TagsJson(<<TagData("Home", Blue)>>)

EditTitleInputs == {Absent, Plain(""), Plain("U")}
EditBodyInputs ==
    {[content |-> Absent, encrypted_content |-> Absent],
     [content |-> Plain(""), encrypted_content |-> Plain("")],
     [content |-> Plain("b"), encrypted_content |-> Absent]}
EditLockInputs ==
    {[is_locked |-> FALSE, salt |-> Absent],
     [is_locked |-> TRUE, salt |-> Plain("s1")]}

NextEdit ==
    \/ FolderCreate(1, "POST", "X", NoFolderField)
    \/ \E d \in {NoFolderField, FolderField(1)}, g \in {NoTags, WorkTag} :
          NoteCreate(1, "POST", Plain("T"), Plain("a"), Absent, FALSE, Absent,
                     d, "markdown", g)
    \/ \E pk \in Pks, t \in EditTitleInputs, b \in EditBodyInputs,
          l \in EditLockInputs, a \in BOOLEAN :
          NoteEdit(1, pk, "POST", t, b.content, b.encrypted_content, l.is_locked,
                   l.salt, FolderField(0), a, HomeTag)

SpecEdit == Init /\ [][NextEdit]_vars

(***************************************************************************)
(* Requests of the lock / unlock workflow                                  *)
(***************************************************************************)
TitleInputs == {Plain(""), Plain("T")}
PasswordInputs == {"", "pw1", "pw2"}
NextInputs == {"note_edit", "note_view"}

\* The content / encrypted_content pairs a form of user u posts: nothing,
\* a plaintext, or a ciphertext (of "a" or of the empty text) that replaces
\* the posted content.
BodyInputs(u) ==
    {[content |-> Plain(""), encrypted_content |-> Absent],
     [content |-> Plain("a"), encrypted_content |-> Absent],
     [content |-> Plain("a"), encrypted_content |-> ClientToken(u, "pw1", "a")],
     [content |-> Plain(""), encrypted_content |-> ClientToken(u, "pw1", "")]}

Next ==
    \/ \E u \in WebUsers :
          NoteCreate(u, "GET", Absent, Absent, Absent, FALSE, Absent,
                     NoFolderField, "markdown", NoTags)
    \/ \E u \in WebUsers, t \in TitleInputs, l \in BOOLEAN :
          \E b \in BodyInputs(u) :
          NoteCreate(u, "POST", t, b.content, b.encrypted_content, l, Absent,
                     NoFolderField, "markdown", NoTags)
    \/ \E u \in WebUsers, pk \in Pks :
          NoteEdit(u, pk, "GET", Absent, Absent, Absent, FALSE, Absent,
                   NoFolderField, FALSE, NoTags)
    \/ \E u \in WebUsers, pk \in Pks, t \in TitleInputs, l \in BOOLEAN,
          a \in BOOLEAN : \E b \in BodyInputs(u) :
          NoteEdit(u, pk, "POST", t, b.content, b.encrypted_content, l, Absent,
                   NoFolderField, a, NoTags)
    \/ \E u \in WebUsers, pk \in Pks, m \in {"GET", "POST"} : NoteDelete(u, pk, m)
    \/ \E u \in WebUsers, pk \in Pks : NoteUnlock(u, pk, "GET", "", "note_edit")
    \/ \E u \in WebUsers, pk \in Pks, p \in PasswordInputs, n \in NextInputs :
          NoteUnlock(u, pk, "POST", p, n)
    \/ \E u \in WebUsers, pk \in Pks : NoteView(u, pk)
    \/ \E u \in WebUsers, pk \in Pks : NoteHistory(u, pk)
    \/ \E u \in WebUsers, pk \in Pks, m \in {"GET", "POST"} :
          NoteMove(u, pk, m, NoFolderField)

Spec == Init /\ [][Next]_vars

(***************************************************************************)
(* Requests of the edit history: one user creates, edits (form and AJAX),  *)
(* deletes and lists the versions of notes with varying titles and salts.  *)
(***************************************************************************)
HistoryTitleInputs == {Plain(""), Plain("T"), Plain("U")}
HistorySaltInputs == {Absent, Plain("s1")}
HistoryBodyInputs(u) ==
    {[content |-> Plain(""), encrypted_content |-> Absent],
     [content |-> Plain("a"), encrypted_content |-> Absent],
     [content |-> Plain("a"), encrypted_content |-> ClientToken(u, "pw1", "a")]}

NextHistory ==
    \/ \E t \in HistoryTitleInputs, l \in BOOLEAN, s \in HistorySaltInputs :
          \E b \in HistoryBodyInputs(1) :
          NoteCreate(1, "POST", t, b.content, b.encrypted_content, l, s,
                     NoFolderField, "markdown", NoTags)
    \/ \E pk \in Pks, t \in HistoryTitleInputs, l \in BOOLEAN,
          s \in HistorySaltInputs, a \in BOOLEAN :
          \E b \in HistoryBodyInputs(1) :
          NoteEdit(1, pk, "POST", t, b.content, b.encrypted_content, l, s,
                   NoFolderField, a, NoTags)
    \/ \E pk \in Pks : NoteDelete(1, pk, "POST")
    \/ \E pk \in Pks : NoteHistory(1, pk)

SpecHistory == Init /\ [][NextHistory]_vars

(***************************************************************************)
(* The migration command (Command.handle): every locked note of the users  *)
(* it selects is tried with the password typed for its user.               *)
(***************************************************************************)
MaxMigNotes == 2     \* Note rows in the table the command runs on

\* A Fernet token of a text shorter than one AES block is 73 bytes: 98
\* base64 characters followed by two "=".
TokenDataChars == 98
TokenPads == 2

\* The characters of a token that urlsafe base64 writes as "-" or "_": they
\* depend on the random IV, the ciphertext and the HMAC; draw d has d - 1.
UrlsafeOnly(text) == text.iv - 1

\* The characters of a plain text that belong to the standard base64
\* alphabet; the plain texts used here have at most one character.
StdAlphabetChars(text) == IF text.data = "" THEN 0 ELSE 1

\* base64.b64decode(s) returns: characters outside the standard alphabet
\* ("-" and "_" among them) are dropped, and binascii.Error is raised when
\* the rest, up to the padding, is not a whole number of quads.
b64decode(text) ==
    LET chars == IF text.kind = "token"
                 THEN TokenDataChars - UrlsafeOnly(text)
                 ELSE StdAlphabetChars(text)
        pads == IF text.kind = "token" THEN TokenPads ELSE 0
        quad_pos == chars % 4
    IN  quad_pos = 0 \/ (quad_pos >= 2 /\ quad_pos + pads >= 4)

\* needs_migration: True when base64.b64decode(note.title.encode()) returns.
needs_migration(note) == b64decode(note.title)

\* A faulty variant: --dry-run is ignored.
MigrateNoteNoDryRun(note, password, dry_run, iv) ==
    LET decrypted_ == decrypt_old_format(note, password) IN
    IF ~decrypted_.none
    THEN IF needs_migration(note)
         THEN [note |-> encrypt_new_format(note, password, decrypted_.title,
                                           decrypted_.content, iv),
               result |-> "migrated"]
         ELSE [note |-> note, result |-> "skipped"]
    ELSE [note |-> note, result |-> "failed"]

\* A faulty variant: a note whose title does not open is taken for a note of
\* the new format and its content is encrypted again.
MigrateNoteRewrap(note, password, dry_run, iv) ==
    LET decrypted_ == decrypt_old_format(note, password)
        c == fernet_decrypt(derive_key(password, SaltFor(note.user)),
                            Encode(note.content))
    IN
    IF ~decrypted_.none
    THEN IF needs_migration(note)
         THEN IF dry_run
              THEN [note |-> note, result |-> "would_migrate"]
              ELSE [note |-> encrypt_new_format(note, password, decrypted_.title,
                                                decrypted_.content, iv),
                    result |-> "migrated"]
         ELSE [note |-> note, result |-> "skipped"]
    ELSE IF c.ok /\ ~dry_run
    THEN [note |-> encrypt_new_format(note, password, note.title.data,
                                      Decode(c.bytes).data, iv),
          result |-> "migrated"]
    ELSE [note |-> note, result |-> "failed"]

\* The body of "for note in user_locked_notes": the note object after the
\* iteration and what was reported for it.  decrypt_old_format returns a
\* dict (always truthy) or None.
MigrateNote(note, password, dry_run, iv) ==
    LET decrypted_ == decrypt_old_format(note, password) IN
    IF ~decrypted_.none
    THEN IF needs_migration(note)
         THEN IF dry_run
              THEN [note |-> note, result |-> "would_migrate"]
              ELSE [note |-> encrypt_new_format(note, password, decrypted_.title,
                                                decrypted_.content, iv),
                    result |-> "migrated"]
         ELSE [note |-> note, result |-> "skipped"]
    ELSE [note |-> note, result |-> "failed"]

\* options["user_id"] when --user-id is not given (None, falsy like 0).
NoUserId == 0

\* A faulty variant: the filter on is_locked is left out.
LockedNotesAny(user_id) ==
    {pk \in DOMAIN notes : user_id # NoUserId => notes[pk].user = user_id}

\* locked_notes: Note.objects.filter(is_locked=True), of one user when
\* --user-id is given.
LockedNotes(user_id) ==
    {pk \in DOMAIN notes :
        /\ notes[pk].is_locked
        /\ user_id # NoUserId => notes[pk].user = user_id}

\* users: the user --user-id names, or the users that own a locked note.
MigrationUsers(user_id) ==
    IF user_id # NoUserId THEN {u \in WebUsers : u = user_id}
    ELSE {notes[pk].user : pk \in LockedNotes(NoUserId)}

\* A faulty variant: the first note that fails ends the loops.
RECURSIVE MigrateLoopAbort(_, _, _, _, _)
MigrateLoopAbort(todo, password, dry_run, ivs, acc) ==
    IF todo = {} THEN acc
    ELSE LET pk == CHOOSE x \in todo : \A y \in todo : x <= y
             note == acc.notes[pk]
             r == MigrateNote(note, password[note.user], dry_run, ivs[pk])
             next == [notes |-> [acc.notes EXCEPT ![pk] = r.note],
                      migrated_count |-> acc.migrated_count
                          + (IF r.result \in {"migrated", "would_migrate"} THEN 1 ELSE 0),
                      failed_count |-> acc.failed_count
                          + (IF r.result = "failed" THEN 1 ELSE 0),
                      outcome |-> Put(acc.outcome, pk, r.result)]
         IN  IF r.result = "failed" THEN next
             ELSE MigrateLoopAbort(todo \ {pk}, password, dry_run, ivs, next)

\* The two nested loops of handle over the locked notes in todo, in key
\* order: acc carries the table and the two counters.
RECURSIVE MigrateLoop(_, _, _, _, _)
MigrateLoop(todo, password, dry_run, ivs, acc) ==
    IF todo = {} THEN acc
    ELSE LET pk == CHOOSE x \in todo : \A y \in todo : x <= y
             note == acc.notes[pk]
             r == MigrateNote(note, password[note.user], dry_run, ivs[pk])
         IN  MigrateLoop(todo \ {pk}, password, dry_run, ivs,
                [notes |-> [acc.notes EXCEPT ![pk] = r.note],
                 migrated_count |-> acc.migrated_count
                     + (IF r.result \in {"migrated", "would_migrate"} THEN 1 ELSE 0),
                 failed_count |-> acc.failed_count
                     + (IF r.result = "failed" THEN 1 ELSE 0),
                 outcome |-> Put(acc.outcome, pk, r.result)])

\* Command.handle(user_id, dry_run); password[u] is what getpass returns for
\* user u and ivs[pk] the Fernet draw used if note pk is encrypted anew.
Migrate(user_id, dry_run, password, ivs) ==
    LET locked_notes == LockedNotes(user_id)
        users == MigrationUsers(user_id)
        todo == {pk \in locked_notes : notes[pk].user \in users}
        done == MigrateLoop(todo, password, dry_run, ivs,
                    [notes |-> notes, migrated_count |-> 0, failed_count |-> 0,
                     outcome |-> <<>>])
    IN
    /\ IF locked_notes = {}
       THEN /\ mig' = [pc |-> "no_locked_notes", user_id |-> user_id,
                       dry_run |-> dry_run, password |-> password,
                       migrated_count |-> 0, failed_count |-> 0,
                       outcome |-> <<>>]
            /\ UNCHANGED notes
       ELSE /\ notes' = done.notes
            /\ mig' = [pc |-> "complete", user_id |-> user_id,
                       dry_run |-> dry_run, password |-> password,
                       migrated_count |-> done.migrated_count,
                       failed_count |-> done.failed_count,
                       outcome |-> done.outcome]
    /\ UNCHANGED <<versions, folders, session, nextPk, last>>
    /\ UNCHANGED otherTables
    /\ UNCHANGED cipherVars

MigPks == 1..MaxMigNotes

\* A note row as an earlier version of the application stored it.
StoredNote(u, title, content, is_locked) ==
    [user |-> u, title |-> title, content |-> content, note_type |-> "markdown",
     is_locked |-> is_locked, salt |-> Plain(""), folder |-> NoFolder, tags |-> {}]

\* The rows the command may meet for user u: old format (title and content
\* encrypted under one password, the title token from either draw), new
\* format (only the content encrypted), and never encrypted; locked, and
\* for two of them not locked.
StoredNotes(u) ==
    {StoredNote(u, fernet_encrypt(derive_key(p, SaltFor(u)), Encode(Plain("T")), iv),
                ClientToken(u, p, "a"), TRUE) :
        p \in Passwords, iv \in IVs}
    \cup {StoredNote(u, Plain("T"), ClientToken(u, "pw1", "a"), TRUE),
          StoredNote(u, Plain("T"), Plain("a"), TRUE),
          StoredNote(u, fernet_encrypt(derive_key("pw1", SaltFor(u)),
                                       Encode(Plain("T")), 1),
                     ClientToken(u, "pw1", "a"), FALSE),
          StoredNote(u, Plain("T"), Plain("a"), FALSE)}

InitMigrate ==
    /\ notes \in [MigPks -> UNION {StoredNotes(u) : u \in WebUsers}]
    /\ versions = [pk \in MigPks |-> <<>>]
    /\ folders = <<>>
    /\ session = [u \in WebUsers |-> <<>>]
    /\ nextPk = MaxMigNotes + 1
    /\ last = Response("none", 1, 1, "none", FALSE)
    /\ NoOtherRows
    /\ CipherIdle

\* The users getpass is called for: those of the run that own a locked note.
AskedUsers(user_id) ==
    {u \in MigrationUsers(user_id) : \E pk \in LockedNotes(user_id) : notes[pk].user = u}

\* What is typed at the prompts of a run, and the Fernet draws it may make.
PasswordsTyped(user_id) == [AskedUsers(user_id) -> Passwords]
DrawsMade(user_id) == [LockedNotes(user_id) -> IVs]

NextMigrate ==
    \/ \E user_id \in {NoUserId} \cup WebUsers :
          \E password \in PasswordsTyped(user_id), ivs \in DrawsMade(user_id) :
             Migrate(user_id, FALSE, password, ivs)
    \/ \E user_id \in {NoUserId} \cup WebUsers :
          \E password \in PasswordsTyped(user_id), ivs \in DrawsMade(user_id) :
             Migrate(user_id, TRUE, password, ivs)

SpecMigrate == InitMigrate /\ [][NextMigrate]_vars

(***************************************************************************)
(* Claims                                                                  *)
(***************************************************************************)
\* The step handled a note_edit POST of pk that saved the note.
SavedBy(pk, outcomes) ==
    /\ last'.op = "note_edit" /\ last'.pk = pk /\ last'.outcome \in outcomes
    /\ pk \in DOMAIN notes /\ pk \in DOMAIN notes'

OwnerViews ==
    {"note_view", "note_edit", "note_delete", "note_history", "note_unlock",
     "note_move"}

\* C2: a request of note_view, note_edit, note_delete, note_history,
\* note_unlock or note_move by a user other than the note's owner is answered
\* not found before any workflow step (no cipher call) and leaves the note,
\* its NoteVersions and the session unchanged, locked or not.
C2_NonOwnerRejected ==
    [][(/\ last'.op \in OwnerViews
        /\ last'.pk \in DOMAIN notes
        /\ notes[last'.pk].user # last'.user)
       => (/\ last'.outcome = "404" /\ ~last'.cipher
           /\ notes' = notes /\ versions' = versions /\ session' = session)]_vars

C2_Witness ==
    /\ last.op = "note_unlock" /\ last.outcome = "404"
    /\ last.pk \in DOMAIN notes
    /\ notes[last.pk].user # last.user
    /\ notes[last.pk].is_locked

\* The response that continues to the view named by ?next=.
Continue(next) ==
    IF next = "note_view" THEN "redirect:note_view" ELSE "redirect:note_edit"

\* C3: for a locked note, the empty plaintext included, a note_unlock POST by
\* the owner with the password the content was encrypted under stores the
\* slot {unlocked_content: the plaintext, password: the password} and
\* continues to the requested view or edit.
C3_UnlockStoresSlot ==
    [][\A u \in WebUsers, pk \in Pks, p \in Passwords, n \in NextInputs,
          t \in Plaintexts :
          (/\ last'.op = "note_unlock"
           /\ ~NotFound(u, pk)
           /\ notes[pk].is_locked
           /\ notes[pk].content = ClientToken(u, p, t)
           /\ NoteUnlock(u, pk, "POST", p, n))
          => (/\ pk \in DOMAIN session'[u]
              /\ session'[u][pk] = [unlocked_content |-> t, password |-> p]
              /\ last'.outcome = Continue(n))]_vars

\* The text is a ciphertext of some plaintext made for user u under p.
EncryptedFor(text, p, u) ==
    \E t \in Plaintexts, iv \in IVs :
        text = fernet_encrypt(derive_key(p, SaltFor(u)), Encode(Plain(t)), iv)

C5_SaveClearsSlot ==
    [][\A u \in WebUsers, pk \in Pks :
          (/\ last'.op = "note_edit" /\ last'.user = u /\ last'.pk = pk
           /\ last'.outcome \in {"redirect:note_view", "json:success"}
           /\ pk \in DOMAIN notes /\ notes[pk].is_locked
           /\ pk \in DOMAIN session[u])
          => pk \notin DOMAIN session'[u]]_vars

\* The responses that ask for the password of the note.
PromptOutcomes == {"render:note_unlock", "redirect:note_unlock"}

\* C6: a view or edit request by the owner for a locked note without a
\* session slot is answered with the password prompt, without a cipher call
\* and without rendering the note or the edit form.
C6_LockedPrompts ==
    [][\A u \in WebUsers, pk \in Pks :
          (/\ last'.op \in {"note_view", "note_edit"}
           /\ ~NotFound(u, pk)
           /\ notes[pk].is_locked
           /\ pk \notin DOMAIN session[u]
           /\ \/ NoteView(u, pk)
              \/ NoteEdit(u, pk, "GET", Absent, Absent, Absent, FALSE, Absent,
                          NoFolderField, FALSE, NoTags))
          => (last'.outcome \in PromptOutcomes /\ ~last'.cipher)]_vars

\* C7: a note with is_locked true stores a ciphertext, never a plaintext as
\* submitted, and a note with is_locked false stores plaintext.
C7_LockedIsCiphertext ==
    \A pk \in DOMAIN notes :
        /\ notes[pk].is_locked => notes[pk].content.kind = "token"
        /\ ~notes[pk].is_locked => notes[pk].content.kind = "plain"

\* The text is a Fernet token made with the key of user u for password p.
CiphertextUnder(text, p, u) ==
    text.kind = "token" /\ text.key.pw = p /\ text.key.salt = SaltFor(u)

\* The last step was a run of the command that processed the notes of u.
Processed(u) ==
    /\ mig'.pc = "complete"
    /\ mig'.user_id \in {NoUserId, u}

\* C11: given the correct password, a non-dry-run migration converts every
\* locked note of the user whose title and content are both ciphertext under
\* the user's key: its title becomes the decrypted old title in plaintext,
\* its content a ciphertext that opens under the same password to the old
\* plaintext content, and the note is counted as migrated.
C11_ConvertsEveryOldFormat ==
    [][\A pk \in MigPks :
          (/\ Processed(notes[pk].user) /\ ~mig'.dry_run
           /\ notes[pk].is_locked
           /\ CiphertextUnder(notes[pk].title, mig'.password[notes[pk].user],
                              notes[pk].user)
           /\ CiphertextUnder(notes[pk].content, mig'.password[notes[pk].user],
                              notes[pk].user))
          => LET u == notes[pk].user
                 opened == fernet_decrypt(derive_key(mig'.password[u], SaltFor(u)),
                                          Encode(notes'[pk].content))
             IN  /\ notes'[pk].title = Plain(notes[pk].title.data)
                 /\ notes'[pk].content.kind = "token"
                 /\ opened.ok
                 /\ Decode(opened.bytes).data = notes[pk].content.data
                 /\ mig'.outcome[pk] = "migrated"
                 /\ mig'.migrated_count >= 1]_vars

\* The locked notes of u.
LockedOf(u) == {pk \in DOMAIN notes : notes[pk].is_locked /\ notes[pk].user = u}

NewFormat(note) == note.title.kind = "plain" /\ note.content.kind = "token"

\* C13: a note already in the new format is never written by migration, and
\* a second run with the same options and passwords leaves every note as
\* the first run left it.
C13_Idempotent ==
    [][/\ \A pk \in MigPks : NewFormat(notes[pk]) => notes'[pk] = notes[pk]
       /\ (/\ mig.pc = "complete" /\ ~mig.dry_run
           /\ mig'.pc = "complete" /\ ~mig'.dry_run
           /\ mig'.user_id = mig.user_id /\ mig'.password = mig.password)
          => notes' = notes]_vars

\* A note that an earlier run converted (its content comes from the second
\* Fernet draw) was met again with its password and left as it was.
C13_Witness ==
    /\ mig.pc = "complete" /\ ~mig.dry_run
    /\ \E pk \in DOMAIN mig.outcome :
          /\ mig.outcome[pk] = "failed"
          /\ notes[pk].is_locked /\ NewFormat(notes[pk])
          /\ notes[pk].content.iv = 2
          /\ notes[pk].content.key.pw = mig.password[notes[pk].user]

\* C14: with --dry-run no note is written, whatever the password and the
\* mix of old-format, new-format and undecryptable notes.
C14_DryRunWritesNothing ==
    [][mig'.dry_run => notes' = notes]_vars

\* A dry run met a note it would migrate and one it could not decrypt.
C14_Witness ==
    /\ mig.pc = "complete" /\ mig.dry_run
    /\ mig.migrated_count = 1 /\ mig.failed_count = 1
    /\ \E pk \in DOMAIN mig.outcome :
          notes[pk].title.kind = "token" /\ mig.outcome[pk] = "would_migrate"

\* C16: a folder_delete POST by the owner of folder F removes F only: every
\* note that was in F is afterwards in the parent of F (in no folder when F
\* was at the root), every direct subfolder of F has the parent of F as its
\* parent, and no note and no other folder is deleted or changed.
C16_FolderDeleteReparents ==
    [][\A fid \in FolderIds :
          (/\ last'.op = "folder_delete" /\ last'.pk = fid
           /\ ~FolderNotFound(last'.user, fid)
           /\ last'.outcome # "render:folder_confirm_delete")
          => /\ fid \notin DOMAIN folders'
             /\ DOMAIN notes' = DOMAIN notes
             /\ \A pk \in DOMAIN notes :
                   notes'[pk] = IF notes[pk].folder = fid
                                THEN [notes[pk] EXCEPT !.folder = folders[fid].parent]
                                ELSE notes[pk]
             /\ DOMAIN folders' = DOMAIN folders \ {fid}
             /\ \A g \in DOMAIN folders \ {fid} :
                   folders'[g] = IF folders[g].parent = fid
                                 THEN [folders[g] EXCEPT !.parent = folders[fid].parent]
                                 ELSE folders[g]]_vars

\* C20: after note_delete succeeds for a note, the session holds no unlock
\* slot for the identifier of that note, whatever unlocks preceded it.
C20_DeleteClearsSlot ==
    [][\A u \in WebUsers, pk \in Pks :
          (/\ last'.op = "note_delete" /\ last'.user = u /\ last'.pk = pk
           /\ last'.outcome = "redirect:note_list")
          => pk \notin DOMAIN session'[u]]_vars

\* C15: canvas notes cannot be encrypted -- in every state reached through
\* create and edit requests (requests with is_locked=on included) no Note and
\* no SharedNote of note_type "canvas" has is_locked true.
C15_CanvasNeverLocked ==
    /\ \A pk \in DOMAIN notes :
          notes[pk].note_type = "canvas" => ~notes[pk].is_locked
    /\ \A id \in DOMAIN sharedNotes :
          sharedNotes[id].note_type = "canvas" => ~sharedNotes[id].is_locked

\* C17: in every state reached through note and shared-note create and edit
\* requests no user owns two tags whose names are equal ignoring case; tags
\* of different users may have the same name.
C17_TagNamesUnique ==
    \A t1 \in tags, t2 \in tags :
        (t1.user = t2.user /\ Lower(t1.name) = Lower(t2.name)) => t1 = t2

\* Two users each own a tag of the same name, and the tag that user 1 created
\* as "Work" has taken the color that a later request sent with "work".
C17_Witness ==
    /\ \E t1 \in tags, t2 \in tags : t1.user # t2.user /\ t1.name = t2.name
    /\ [user |-> 1, name |-> "Work", color |-> Red] \in tags
    /\ \E pk \in DOMAIN notes : notes[pk].tags # {}
    /\ \E id \in DOMAIN sharedNotes : sharedNotes[id].tags # {}

\* C18: canvas_element_create by the owner of a canvas note with element_type
\* textbox, rectangle or freehand returns success and adds exactly one
\* CanvasElement to that note, which carries the submitted element type,
\* text_content, stroke_color, fill_color and path_data.
C18_ElementCreated ==
    [][\A u \in WebUsers, d \in ElementInputs :
          (/\ last'.op = "canvas_element_create" /\ last'.user = u
           /\ d.json /\ d.element_type \in {"textbox", "rectangle", "freehand"}
           /\ d.note_id # 0 /\ ~NotFound(u, d.note_id)
           /\ notes[d.note_id].note_type = "canvas"
           /\ CanvasElementCreate(u, "POST", d))
          => /\ last'.outcome = "json:success"
             /\ \E id \in DOMAIN elements' \ DOMAIN elements :
                   /\ DOMAIN elements' = DOMAIN elements \cup {id}
                   /\ \A e \in DOMAIN elements : elements'[e] = elements[e]
                   /\ elements'[id].note = d.note_id
                   /\ elements'[id].element_type = d.element_type
                   /\ elements'[id].text_content = d.text_content
                   /\ elements'[id].stroke_color = d.stroke_color
                   /\ elements'[id].fill_color = d.fill_color
                   /\ elements'[id].path_data = d.path_data]_vars

\* The replies that turn a user away from a shared note or folder.
AccessDenied ==
    {"redirect:friends_list:You don't have access to this note.",
     "json:Access denied", "redirect:friends_list:Access denied"}

\* C19: a view, edit, delete or move request on a shared note, and a rename
\* or delete request on a shared folder, by a user who is neither its user1
\* nor its user2 is denied and leaves the shared notes, the shared folders and
\* the tags unchanged; the same requests by user1 or user2 are not denied.
C19_OnlyUser1AndUser2 ==
    [][/\ \A id \in DOMAIN sharedNotes :
             (/\ last'.op \in {"shared_note_view", "shared_note_edit",
                               "shared_note_delete", "shared_note_move"}
              /\ last'.pk = id)
             => IF last'.user \in {sharedNotes[id].user1, sharedNotes[id].user2}
                THEN last'.outcome \notin AccessDenied
                ELSE /\ last'.outcome \in AccessDenied
                     /\ UNCHANGED <<sharedNotes, sharedFolders, tags, elements>>
       /\ \A fid \in DOMAIN sharedFolders :
             (/\ last'.op \in {"shared_folder_rename", "shared_folder_delete"}
              /\ last'.pk = fid)
             => IF last'.user \in {sharedFolders[fid].user1, sharedFolders[fid].user2}
                THEN last'.outcome \notin AccessDenied
                ELSE /\ last'.outcome \in AccessDenied
                     /\ UNCHANGED <<sharedNotes, sharedFolders, tags, elements>>]_vars

\* User 3 has just been turned away from editing a tagged note that users 1
\* and 2 share, which lies in a folder of theirs.
C19_Witness ==
    /\ last.op = "shared_note_edit" /\ last.user = 3
    /\ last.outcome \in AccessDenied
    /\ last.pk \in DOMAIN sharedNotes
    /\ sharedNotes[last.pk].user1 = 1 /\ sharedNotes[last.pk].user2 = 2
    /\ sharedNotes[last.pk].tags # {}
    /\ sharedNotes[last.pk].folder \in DOMAIN sharedFolders

\* C21: a save request (a note_edit POST) for a locked note of the user, made
\* while the session holds no unlock slot for that note, writes nothing to the
\* note, creates no NoteVersion and redirects to the password prompt.
C21_NoSlotRedirects ==
    [][\A u \in WebUsers, pk \in Pks :
          (/\ last'.op = "note_edit" /\ last'.user = u /\ last'.pk = pk
           /\ ~NotFound(u, pk)
           /\ notes[pk].is_locked
           /\ pk \notin DOMAIN session[u]
           /\ last'.outcome # "render:note_form")
          => /\ notes' = notes
             /\ versions' = versions
             /\ last'.outcome = "redirect:note_unlock"]_vars

\* The notes a run reported with the given results.
Reported(results) == {pk \in DOMAIN mig'.outcome : mig'.outcome[pk] \in results}

C23_NewFormatSkipped ==
    [][\A pk \in MigPks :
          (/\ Processed(notes[pk].user)
           /\ notes[pk].is_locked /\ NewFormat(notes[pk])
           /\ CiphertextUnder(notes[pk].content, mig'.password[notes[pk].user],
                              notes[pk].user))
          => /\ mig'.outcome[pk] = "skipped"
             /\ mig'.failed_count = Cardinality(Reported({"failed"}) \ {pk})]_vars

\* C26: a run changes nothing but the title and content of locked notes of
\* the selected users: unlocked notes, notes of users that --user-id does not
\* select, the is_locked flag, folder and tags of every note and all
\* NoteVersion rows are after the run what they were before it.
C26_OnlyLockedOfSelected ==
    [][/\ DOMAIN notes' = DOMAIN notes
       /\ \A pk \in DOMAIN notes :
             /\ notes'[pk] = [notes[pk] EXCEPT !.title = notes'[pk].title,
                                               !.content = notes'[pk].content]
             /\ (~notes[pk].is_locked
                 \/ (mig'.user_id # NoUserId /\ notes[pk].user # mig'.user_id))
                => notes'[pk] = notes[pk]
       /\ versions' = versions
       /\ UNCHANGED <<folders, tags>>]_vars

\* A run for user 1 converted the note of user 1 and left alone a locked
\* old-format note of user 2.
C26_Witness ==
    /\ mig.pc = "complete" /\ ~mig.dry_run /\ mig.user_id = 1
    /\ mig.outcome = Put(<<>>, 1, "migrated")
    /\ notes[1].user = 1 /\ notes[1].title.kind = "plain"
    /\ notes[2].title.kind = "token" /\ notes[2].content.kind = "token"
    /\ notes[2].user = 2 /\ notes[2].is_locked

\* A field that is missing or empty.
Empty(field) == field \in {Absent, Plain("")}

\* C24: a note_edit POST that fails validation -- a form save with an empty
\* title, or any save with empty content -- invokes no cipher, leaves the
\* title, content, is_locked, salt, folder and tags of the note unchanged
\* and creates no NoteVersion.
C24_InvalidEditWritesNothing ==
    [][\A pk \in Pks, t \in EditTitleInputs, b \in EditBodyInputs,
          l \in EditLockInputs, a \in BOOLEAN :
          (/\ last'.op = "note_edit" /\ last'.pk = pk
           /\ ~NotFound(1, pk)
           /\ \/ ~a /\ Empty(t)
              \/ Empty(b.content) /\ Empty(b.encrypted_content)
           /\ NoteEdit(1, pk, "POST", t, b.content, b.encrypted_content,
                       l.is_locked, l.salt, FolderField(0), a, HomeTag))
          => /\ notes' = notes
             /\ versions' = versions
             /\ tags' = tags
             /\ ~last'.cipher
             /\ last'.outcome = "render:note_form:Title and content are required."]_vars

\* A save of a note that lies in a folder and has a tag was turned down.
C24_Witness ==
    /\ last.op = "note_edit"
    /\ last.outcome = "render:note_form:Title and content are required."
    /\ last.pk \in DOMAIN notes
    /\ notes[last.pk].folder = 1
    /\ notes[last.pk].tags # {}
    /\ versions[last.pk] = <<>>

\* C25: a note_edit POST with ajax_update=true and non-empty content changes
\* only content, is_locked and salt of the note: title, folder and tags stay
\* and no NoteVersion is created, also when the request carries title, folder
\* and tags values.
C25_AjaxEditFrame ==
    [][\A pk \in Pks, t \in EditTitleInputs, b \in EditBodyInputs,
          l \in EditLockInputs :
          (/\ last'.op = "note_edit" /\ last'.pk = pk
           /\ ~NotFound(1, pk)
           /\ ~(Empty(b.content) /\ Empty(b.encrypted_content))
           /\ NoteEdit(1, pk, "POST", t, b.content, b.encrypted_content,
                       l.is_locked, l.salt, FolderField(0), TRUE, HomeTag))
          => /\ DOMAIN notes' = DOMAIN notes
             /\ notes'[pk] = [notes[pk] EXCEPT !.content = notes'[pk].content,
                                               !.is_locked = notes'[pk].is_locked,
                                               !.salt = notes'[pk].salt]
             /\ versions' = versions
             /\ tags' = tags
             /\ folders' = folders]_vars

\* An AJAX save that carried the title U, the empty folder and the tag Home
\* has stored new content, lock flag and salt for a note that still has its
\* title, folder and tag.
C25_Witness ==
    /\ last.op = "note_edit" /\ last.outcome = "json:success"
    /\ last.pk \in DOMAIN notes
    /\ notes[last.pk].title = Plain("T")
    /\ notes[last.pk].content = Plain("b")
    /\ notes[last.pk].is_locked /\ notes[last.pk].salt = Plain("s1")
    /\ notes[last.pk].folder = 1
    /\ notes[last.pk].tags = {[user |-> 1, name |-> "Work"]}
    /\ versions[last.pk] = <<>>

\* C27: in every state reached through folder_create, folder_rename and
\* folder_delete requests no user has two folders with the same name and the
\* same parent, two folders at the root included.
C27_FolderNamesUnique ==
    \A f \in DOMAIN folders, g \in DOMAIN folders :
        (/\ folders[f].user = folders[g].user
         /\ folders[f].name = folders[g].name
         /\ folders[f].parent = folders[g].parent) => f = g

\* C28: in every state reached through note_create, note_edit, note_move,
\* folder_create and folder_delete requests the folder of a note, when set,
\* is a folder of the owner of the note, and the parent of a folder, when
\* set, is a folder of the same user.
C28_FoldersOfOwner ==
    /\ \A pk \in DOMAIN notes :
          notes[pk].folder # NoFolder
          => /\ notes[pk].folder \in DOMAIN folders
             /\ folders[notes[pk].folder].user = notes[pk].user
    /\ \A f \in DOMAIN folders :
          folders[f].parent # NoFolder
          => /\ folders[f].parent \in DOMAIN folders
             /\ folders[folders[f].parent].user = folders[f].user

\* Both users own folders, a note lies in a folder below another folder, and
\* a request to move the note into the folder of the other user was refused.
C28_Witness ==
    /\ last.op = "note_move" /\ last.outcome = "json:Folder not found"
    /\ \E f \in DOMAIN folders : folders[f].user # last.user
    /\ last.pk \in DOMAIN notes
    /\ notes[last.pk].user = last.user
    /\ notes[last.pk].folder # NoFolder
    /\ folders[notes[last.pk].folder].parent # NoFolder

\* C29: in every state reached through shared_note_create, shared_note_edit,
\* shared_note_move and shared_folder_create requests the folder of a shared
\* note, when set, belongs to the pair of users of the note, and the parent
\* of a shared folder, when set, belongs to the pair of users of the folder.
C29_SharedFoldersOfPair ==
    /\ \A id \in DOMAIN sharedNotes :
          sharedNotes[id].folder # NoFolder
          => /\ sharedNotes[id].folder \in DOMAIN sharedFolders
             /\ sharedFolders[sharedNotes[id].folder].user1 = sharedNotes[id].user1
             /\ sharedFolders[sharedNotes[id].folder].user2 = sharedNotes[id].user2
    /\ \A f \in DOMAIN sharedFolders :
          sharedFolders[f].parent # NoFolder
          => /\ sharedFolders[f].parent \in DOMAIN sharedFolders
             /\ sharedFolders[sharedFolders[f].parent].user1 = sharedFolders[f].user1
             /\ sharedFolders[sharedFolders[f].parent].user2 = sharedFolders[f].user2

====
